---- MODULE Spec2Model ----
(***************************************************************************)
(* Model of the wildcard-index benchmark scenario files of mongo-perf:     *)
(*   src/unnamed/part_000                   ("part_000" below)             *)
(*   src/testcases/wildcard_index_query.js  ("wildcard_index_query.js")    *)
(* Both files build test cases at load time and append them to the         *)
(* process-wide registry `tests`; the runner later calls each case's `pre` *)
(* (its setup function) against a collection.                              *)
(*                                                                         *)
(* JavaScript strings are TLA+ strings, arrays are sequences, and a        *)
(* document is a function from node paths (sequences of keys) to nodes.    *)
(***************************************************************************)
EXTENDS Integers, Sequences, FiniteSets, TLC

VARIABLES
    file,       \* the scenario file being loaded ("" before any load)
    loaded,     \* the scenario files this process has loaded so far
    pc,         \* "start" | "body" | "done" | "aborted": position of the load
    testsType,  \* typeof tests: "undefined" | "object"
    tests,      \* the process-wide registry (a sequence of test cases)
    rng,        \* state of the shell's Random stream
    rngStart,   \* the states the two processes' streams started in
    rlog,       \* Random calls of the current load: one entry for the head of
                \* the file, then one per statement, each a sequence of calls
    stmt,       \* the top-level statement last evaluated (its arguments)
    testsB,     \* registry of a second process running the same statements
    rngB,       \* Random stream of that second process
    run,        \* the runner's current call of a case's setup function
    coll,       \* the collection the setup function works on
    calls,      \* collection calls issued by the current setup run
    call,       \* last call of a library function: [fn, args, result]
    ip,         \* how many statements of the file's script have been executed
    scriptFieldList  \* the script's global variable fieldList

vars == <<file, loaded, pc, testsType, tests, rng, rngStart,
          rlog, stmt, testsB, rngB, run, coll, calls, call, ip, scriptFieldList>>

PartFile == "part_000"
WildcardFile == "wildcard_index_query.js"
Files == {PartFile, WildcardFile}

\* ------------------------------------------------------------------ bounds
MaxTests == 2        \* registry length the build statements may reach
MaxPairTests == 2    \* the same, where two builds run side by side
MaxFields == 2       \* longest field list handed to a library function
MaxDepth == 2        \* deepest nesting asked of getNFieldNamesAtGivenDepth
MaxDocs == 2         \* largest documentCount of a setup run
MaxArraySize == 2    \* largest arraySize of an array generator
MaxSeed == 1         \* largest seed handed to a generated seed function
MaxPaths == 3        \* longest list of dotted paths handed to a generator
MaxExtraDocs == 3    \* numDocuments ranges over 11 .. 11 + MaxExtraDocs

\* ------------------------------------------------------- program constants
Seed == 11010
numDocuments == 100
defaultArraySize == 100
RangeWidth == 10

\* ----------------------------------------------------------------- helpers
Range(s) == {s[i] : i \in 1..Len(s)}

IsPrefix(s, t) == Len(s) <= Len(t) /\ SubSeq(t, 1, Len(s)) = s

IsProperPrefix(s, t) == Len(s) < Len(t) /\ SubSeq(t, 1, Len(s)) = s

\* mongo shell assert(cond): throws when cond is false.
AssertThrows(cond) == ~cond

\* String.prototype.indexOf("."), 1-based; 0 when there is no dot.
IndexOfDot(s) ==
    IF \E i \in 1..Len(s) : SubSeq(s, i, i) = "."
    THEN CHOOSE i \in 1..Len(s) :
            /\ SubSeq(s, i, i) = "."
            /\ \A j \in 1..(i - 1) : SubSeq(s, j, j) # "."
    ELSE 0

\* path.split("."): "" splits to <<"">>, "a." to <<"a", "">>.
RECURSIVE Split(_)
Split(s) ==
    LET d == IndexOfDot(s)
    IN  IF d = 0 THEN <<s>>
        ELSE <<SubSeq(s, 1, d - 1)>> \o Split(SubSeq(s, d + 1, Len(s)))

\* path.slice(from, path.length) with a 0-based `from`.
Slice(s, from) == SubSeq(s, from + 1, Len(s))

\* -------------------------------------------------- field-name synthesis
\* for (i = 0; i < numFields; i++) fieldNames.push("field-" + i): element
\* number i + 1 of the result is the name pushed in iteration i.
getNFieldNames(numFields) ==
    [k \in 1..numFields |-> "field-" \o ToString(k - 1)]

RECURSIVE PathPrefixLoop(_, _, _)
PathPrefixLoop(depth, i, pathPrefix) ==
    IF i < depth
    THEN PathPrefixLoop(depth, i + 1,
            (IF i > 0 THEN pathPrefix \o "." ELSE pathPrefix)
              \o ("subObj-" \o ToString(i)))
    ELSE pathPrefix

getNFieldNamesAtGivenDepth(nFields, depth) ==
    LET pathPrefix == PathPrefixLoop(depth, 0, "")
        fieldNames == getNFieldNames(nFields)
    IN  [j \in 1..Len(fieldNames) |-> pathPrefix \o "." \o fieldNames[j]]

\* ---------------------------------------------------------------- documents
\* A node of a document: a number, an array of numbers, or a nested object.
NumberNode(v) == [type |-> "number", value |-> <<v>>]
ArrayNode(a) == [type |-> "array", value |-> a]
ObjectNode == [type |-> "object", value |-> <<>>]

EmptyDoc == <<>>

\* Mutant: the type check of setDottedFieldToValue always sees a non-object.
TypeOf_Undefined(doc, base, key) == "undefined"

\* typeof object[key], `object` being the node at path `base` of doc.
TypeOf(doc, base, key) ==
    LET p == Append(base, key)
    IN  IF p \in DOMAIN doc
        THEN (IF doc[p].type = "number" THEN "number" ELSE "object")
        ELSE "undefined"

\* object[key] = node: whatever was stored below that key is replaced.
SetKey(doc, base, key, node) ==
    LET p == Append(base, key)
        keep == {q \in DOMAIN doc : ~IsProperPrefix(p, q)} \cup {p}
    IN  [q \in keep |-> IF q = p THEN node ELSE doc[q]]

\* setDottedFieldToValue(object, path, value), `object` being the node at
\* path `base` of doc (the recursion descends into object[fields[0]]).
RECURSIVE SetDotted(_, _, _, _)
SetDotted(doc, base, path, value) ==
    LET fields == Split(path)
    IN  IF Len(fields) = 1
        THEN SetKey(doc, base, path, NumberNode(value))
        ELSE LET made == IF TypeOf(doc, base, fields[1]) # "object"
                         THEN SetKey(doc, base, fields[1], ObjectNode)
                         ELSE doc
             IN  SetDotted(made, Append(base, fields[1]),
                           Slice(path, Len(fields[1]) + 1), value)

setDottedFieldToValue(object, path, value) == SetDotted(object, <<>>, path, value)

\* The value a dotted path reads in a document: <<v>> for a number, the
\* array for an array, <<>> with type "object"/"undefined" otherwise.
ReadPath(doc, path) ==
    LET p == Split(path)
    IN  IF p \in DOMAIN doc THEN doc[p] ELSE [type |-> "undefined", value |-> <<>>]

\* ------------------------------------------------------ document generators
\* A generator closure: the builder that made it and what it captured.
Closure(kind, fieldList, documentCount, arraySize) ==
    [kind |-> kind, fieldList |-> fieldList,
     documentCount |-> documentCount, arraySize |-> arraySize]

Threw == [threw |-> TRUE, value |-> <<>>]

\* An argument a caller may leave out: undefined, or the number passed.
undefined == <<>>
Number(n) == <<n>>

\* How often `for (i = 0; i < count; ++i)` runs: i < undefined is false.
LoopCount(count) == IF count = undefined THEN 0 ELSE count[1]
Returned(v) == [threw |-> FALSE, value |-> v]

\* for (j = 0; j < fieldList.length; ++j) setDottedFieldToValue(doc, fieldList[j], seed)
RECURSIVE ScalarLoop(_, _, _, _)
ScalarLoop(fieldList, j, seed, doc) ==
    IF j <= Len(fieldList)
    THEN ScalarLoop(fieldList, j + 1, seed,
                    setDottedFieldToValue(doc, fieldList[j], seed))
    ELSE doc

\* for (k = 0; k < fieldList.length; ++k) doc[fieldList[k]] = value
RECURSIVE AssignLoop(_, _, _, _)
AssignLoop(fieldList, k, value, doc) ==
    IF k <= Len(fieldList)
    THEN AssignLoop(fieldList, k + 1, value,
                    SetKey(doc, <<>>, fieldList[k], ArrayNode(value)))
    ELSE doc

\* wildcard_index_query.js: the seed functions.
getMultiFieldPathToIntegerDocumentGenerator(fieldList) ==
    IF AssertThrows(Len(fieldList) > 0) THEN Threw
    ELSE Returned(Closure("getMultiFieldPathToIntegerDocumentGenerator",
                          fieldList, 0, 0))

MultiFieldPathToIntegerDocument(fieldList, seed) ==
    ScalarLoop(fieldList, 1, seed, EmptyDoc)

getTopLevelArrayMultiFieldDocumentGenerator(fieldList, arraySize) ==
    IF AssertThrows(Len(fieldList) > 0) THEN Threw
    ELSE Returned(Closure("getTopLevelArrayMultiFieldDocumentGenerator",
                          fieldList, 0, arraySize))

\* Mutant: the offset is rounded down instead of up.
TopLevelArrayMultiFieldDocument_Floor(fieldList, arraySize, seed) ==
    LET value == seed - (arraySize \div 2)
        valueList == [j \in 1..arraySize |-> value + (j - 1)]
    IN  AssignLoop(fieldList, 1, valueList, EmptyDoc)

TopLevelArrayMultiFieldDocument(fieldList, arraySize, seed) ==
    LET value == seed - ((arraySize + 1) \div 2)   \* seed - Math.ceil(arraySize / 2)
        valueList == [j \in 1..arraySize |-> value + (j - 1)]
    IN  AssignLoop(fieldList, 1, valueList, EmptyDoc)

getTopLevelArraySingleFieldPerDocumentGenerator(fieldList, arraySize) ==
    IF AssertThrows(Len(fieldList) > 0) THEN Threw
    ELSE Returned(Closure("getTopLevelArraySingleFieldPerDocumentGenerator",
                          fieldList, 0, arraySize))

TopLevelArraySingleFieldPerDocument(fieldList, arraySize, seed) ==
    LET value == [j \in 1..arraySize |-> j - 1]
        currentFieldIndex == seed % Len(fieldList)
    IN  SetKey(EmptyDoc, <<>>, fieldList[currentFieldIndex + 1], ArrayNode(value))

\* The seed function a wildcard_index_query.js generator returned, applied.
CallSeedFunction(gen, seed) ==
    CASE gen.kind = "getMultiFieldPathToIntegerDocumentGenerator" ->
            MultiFieldPathToIntegerDocument(gen.fieldList, seed)
      [] gen.kind = "getTopLevelArrayMultiFieldDocumentGenerator" ->
            TopLevelArrayMultiFieldDocument(gen.fieldList, gen.arraySize, seed)
      [] gen.kind = "getTopLevelArraySingleFieldPerDocumentGenerator" ->
            TopLevelArraySingleFieldPerDocument(gen.fieldList, gen.arraySize, seed)

\* Mutant: the loop starts at 1, so the document of seed 0 is never inserted.
populateCollection_SkipsFirst(docGenerator, count) ==
    [i \in 1..(count - 1) |-> CallSeedFunction(docGenerator, i)]

\* Mutant: the loop counts down, so the documents are inserted last seed first.
populateCollection_Descending(docGenerator, count) ==
    [i \in 1..count |-> CallSeedFunction(docGenerator, count - i)]

\* populateCollection(docGenerator, collection, count): the documents inserted.
populateCollection(docGenerator, count) ==
    [i \in 1..count |-> CallSeedFunction(docGenerator, i - 1)]

\* Mutant: the generator builder without its assert.
getDocumentGenerator_NoAssert(fieldList, documentCount) ==
    Returned(Closure("getDocumentGenerator", fieldList, documentCount, 0))

\* part_000: the population functions, which insert by themselves.
getDocumentGenerator(fieldList, documentCount) ==
    IF AssertThrows(Len(fieldList) > 0) THEN Threw
    ELSE Returned(Closure("getDocumentGenerator", fieldList, documentCount, 0))

DocumentGeneratorInserts(fieldList, documentCount) ==
    [n \in 1..documentCount |-> ScalarLoop(fieldList, 1, n - 1, EmptyDoc)]

getTopLevelArrayDocumentGenerator(fieldList, documentCount, arraySize) ==
    IF AssertThrows(Len(fieldList) > 0) THEN Threw
    ELSE Returned(Closure("getTopLevelArrayDocumentGenerator",
                          fieldList, documentCount, arraySize))

\* for (j = i - offset; j < i + offset; j += 10) value.push(j)
RECURSIVE SpacedValuesLoop(_, _, _)
SpacedValuesLoop(j, end, value) ==
    IF j < end THEN SpacedValuesLoop(j + 10, end, Append(value, j)) ELSE value

TopLevelArrayDocumentGeneratorInserts(fieldList, documentCount, arraySize) ==
    LET offset == (arraySize * 10) \div 2
    IN  [n \in 1..documentCount |->
            AssignLoop(fieldList, 1,
                       SpacedValuesLoop((n - 1) - offset, (n - 1) + offset, <<>>),
                       EmptyDoc)]

getTopLevelArraySingleFieldPerDocumentGenerator_part000(fieldList, documentCount, arraySize) ==
    IF AssertThrows(Len(fieldList) > 0) THEN Threw
    ELSE Returned(Closure("getTopLevelArraySingleFieldPerDocumentGenerator_part000",
                          fieldList, documentCount, arraySize))

\* The loop of the population variant: currentFieldIndex advances by one,
\* modulo the field count, after each insert.
RECURSIVE RotatingInsertLoop(_, _, _, _, _, _)
RotatingInsertLoop(fieldList, documentCount, arraySize, i, currentFieldIndex, inserted) ==
    IF i < documentCount
    THEN RotatingInsertLoop(fieldList, documentCount, arraySize, i + 1,
            (currentFieldIndex + 1) % Len(fieldList),
            Append(inserted,
                   SetKey(EmptyDoc, <<>>, fieldList[currentFieldIndex + 1],
                          ArrayNode([j \in 1..arraySize |-> j - 1]))))
    ELSE inserted

\* Mutant: currentFieldIndex is advanced before the first insert.
TopLevelArraySingleFieldPerDocumentInserts_AdvancesFirst(fieldList, documentCount, arraySize) ==
    RotatingInsertLoop(fieldList, documentCount, arraySize, 0, 1 % Len(fieldList), <<>>)

TopLevelArraySingleFieldPerDocumentInserts(fieldList, documentCount, arraySize) ==
    RotatingInsertLoop(fieldList, documentCount, arraySize, 0, 0, <<>>)

\* The population function a part_000 generator returned, applied: the
\* documents it inserts (its second argument is ignored by every variant).
CallPopulationFunction(gen) ==
    CASE gen.kind = "getDocumentGenerator" ->
            DocumentGeneratorInserts(gen.fieldList, gen.documentCount)
      [] gen.kind = "getTopLevelArrayDocumentGenerator" ->
            TopLevelArrayDocumentGeneratorInserts(gen.fieldList, gen.documentCount,
                                                  gen.arraySize)
      [] gen.kind = "getTopLevelArraySingleFieldPerDocumentGenerator_part000" ->
            TopLevelArraySingleFieldPerDocumentInserts(gen.fieldList,
                                                       gen.documentCount, gen.arraySize)

\* ------------------------------------------------------------------- Random
\* The shell's Random: a reproducible generator (same seed, same sequence).
\* rand() is the new state over 16, randInt(n) is Math.floor(rand() * n).
SetRandomSeed(s) == s % 16

RandNext(state) == (5 * state + 3) % 16

RandInt(state, n) == (RandNext(state) * n) \div 16

\* States the stream may be in when a process starts.
StartStates == {0, 7}

SeedEvent(by) == [op |-> "setRandomSeed", by |-> by]
DrawEvent(by) == [op |-> "randInt", by |-> by]

\* ------------------------------------------------------ query-list builders
\* A builder's outcome: the list it returns (or that it threw), the Random
\* state it leaves and the Random calls it made.
Outcome(threw, list, state, log) ==
    [threw |-> threw, list |-> list, rng |-> state, log |-> log]

PointQuery(field, maxValue) ==
    [op |-> "find", query |-> [field |-> field, RAND_INT |-> <<0, maxValue>>]]

getPointQueryList(fieldList, maxValue, state) ==
    Outcome(FALSE, [i \in 1..Len(fieldList) |-> PointQuery(fieldList[i], maxValue)],
            state, <<>>)

getTwoPointQueryList(fieldList, numDocs, state) ==
    IF AssertThrows(Len(fieldList) = 2) THEN Outcome(TRUE, <<>>, state, <<>>)
    ELSE LET letArg == [op |-> "let", target |-> "randVal",
                        value |-> [RAND_INT |-> <<0, numDocs>>]]
             queryArg1 == [field |-> fieldList[1], variable |-> "randVal"]
             queryArg2 == [field |-> fieldList[2], variable |-> "randVal"]
             query == [and |-> <<queryArg1, queryArg2>>]
         IN  Outcome(FALSE, <<letArg, [op |-> "find", query |-> query]>>, state, <<>>)

\* Mutant: the upper end is one short of the width.
RangePredicate_Short(field, rangeStart) ==
    [field |-> field, gte |-> rangeStart, lte |-> rangeStart + RangeWidth - 1]

RangePredicate(field, rangeStart) ==
    [field |-> field, gte |-> rangeStart, lte |-> rangeStart + RangeWidth]

RangeQuery(field, rangeStart) ==
    [op |-> "find", query |-> RangePredicate(field, rangeStart)]

RangeSortQuery(field, rangeStart) ==
    [op |-> "find",
     query |-> [query |-> RangePredicate(field, rangeStart),
                orderby |-> [field |-> field, dir |-> 1]]]

\* Mutant: no range builder sets the seed.
SeedsOnEntry_Never(f) == FALSE

\* Whether a builder of file f sets the seed on entry: the range builders of
\* wildcard_index_query.js do, those of part_000 do not.
SeedsOnEntry(f) == f = WildcardFile

\* for (i = 0; i < fieldList.length; ++i): one draw and one push per field.
RECURSIVE RangeLoop(_, _, _, _, _, _, _)
RangeLoop(by, fieldList, numDocs, i, state, list, log) ==
    IF i <= Len(fieldList)
    THEN LET rangeStart == RandInt(state, numDocs - RangeWidth)
             q == IF by = "getRangeQueryList"
                  THEN RangeQuery(fieldList[i], rangeStart)
                  ELSE RangeSortQuery(fieldList[i], rangeStart)
         IN  RangeLoop(by, fieldList, numDocs, i + 1, RandNext(state),
                       Append(list, q), Append(log, DrawEvent(by)))
    ELSE Outcome(FALSE, list, state, log)

\* Mutant: the builder of part_000 sets the seed on entry as well.
getRangeQueryList_AlwaysSeeds(f, fieldList, numDocs, state) ==
    RangeLoop("getRangeQueryList", fieldList, numDocs, 1, SetRandomSeed(Seed),
              <<>>, <<SeedEvent("getRangeQueryList")>>)

getRangeQueryList(f, fieldList, numDocs, state) ==
    IF SeedsOnEntry(f)
    THEN RangeLoop("getRangeQueryList", fieldList, numDocs, 1, SetRandomSeed(Seed),
                   <<>>, <<SeedEvent("getRangeQueryList")>>)
    ELSE RangeLoop("getRangeQueryList", fieldList, numDocs, 1, state, <<>>, <<>>)

getRangeSortQueryList(f, fieldList, numDocs, state) ==
    IF SeedsOnEntry(f)
    THEN RangeLoop("getRangeSortQueryList", fieldList, numDocs, 1, SetRandomSeed(Seed),
                   <<>>, <<SeedEvent("getRangeSortQueryList")>>)
    ELSE RangeLoop("getRangeSortQueryList", fieldList, numDocs, 1, state, <<>>, <<>>)

\* ------------------------------------------------------------- the registry
NamePrefix == "Queries.WildcardIndex."

TestCase(name, fixedTags, options) ==
    [name |-> NamePrefix \o name,
     tags |-> fixedTags \o options.tags,
     pre  |-> options.pre,
     ops  |-> options.ops]

\* part_000
addTest(registry, options) ==
    Append(registry, TestCase(options.name, <<"wildcard", "query", "indexed">>, options))

\* wildcard_index_query.js
addReadTest(registry, options) ==
    Append(registry,
           TestCase(options.name, <<"wildcard_read", "indexed", ">=4.1.3">>, options))

AddCase(f, registry, options) ==
    IF f = PartFile THEN addTest(registry, options) ELSE addReadTest(registry, options)

\* Mutant: the head of the file resets the registry unconditionally.
LazyInit_Always(type, registry) == <<>>

\* if (typeof tests != "object") { tests = []; }
LazyInit(type, registry) == IF type # "object" THEN <<>> ELSE registry

\* The setup functions are closures: what they captured is all they are
\* until the runner calls them (see StartSetup below).
getSetupFunctionForTargetedIndex(fieldsToIndex, documentGenerator, documentCount) ==
    [setup |-> "TargetedIndex", fieldsToIndex |-> fieldsToIndex,
     documentGenerator |-> documentGenerator, documentCount |-> documentCount]

getSetupFunctionWithWildcardIndex(fieldsToIndex, documentGenerator, documentCount) ==
    [setup |-> "WildcardIndex", fieldsToIndex |-> fieldsToIndex,
     documentGenerator |-> documentGenerator, documentCount |-> documentCount]

makeStandaloneReadTest(f, registry, name, fieldsToIndex, operationList, documentGenerator, documentCount) ==
    AddCase(f, registry,
            [name |-> name,
             tags |-> <<"regression">>,
             pre  |-> getSetupFunctionWithWildcardIndex(fieldsToIndex, documentGenerator,
                                                        documentCount),
             ops  |-> operationList])

\* Mutant: the baseline case is registered with the wildcard-index setup.
makeComparisonReadTest_SharedSetup(f, registry, name, fieldsToIndex, operationList, documentGenerator, documentCount) ==
    LET options == [name |-> name,
                    tags |-> <<"regression">>,
                    pre  |-> getSetupFunctionWithWildcardIndex(
                                 fieldsToIndex, documentGenerator, documentCount),
                    ops  |-> operationList]
    IN  AddCase(f, AddCase(f, registry, options),
                [options EXCEPT !.name = name \o ".Baseline"])

\* Mutant: the baseline case is registered under the name of the first.
makeComparisonReadTest_SameName(f, registry, name, fieldsToIndex, operationList, documentGenerator, documentCount) ==
    LET first == AddCase(f, registry,
            [name |-> name,
             tags |-> <<"regression">>,
             pre  |-> getSetupFunctionWithWildcardIndex(fieldsToIndex, documentGenerator,
                                                        documentCount),
             ops  |-> operationList])
    IN  AddCase(f, first,
            [name |-> name,
             tags |-> <<"regression">>,
             pre  |-> getSetupFunctionForTargetedIndex(fieldsToIndex, documentGenerator,
                                                       documentCount),
             ops  |-> operationList])

makeComparisonReadTest(f, registry, name, fieldsToIndex, operationList, documentGenerator, documentCount) ==
    LET first == AddCase(f, registry,
            [name |-> name,
             tags |-> <<"regression">>,
             pre  |-> getSetupFunctionWithWildcardIndex(fieldsToIndex, documentGenerator,
                                                        documentCount),
             ops  |-> operationList])
    IN  AddCase(f, first,
            [name |-> name \o ".Baseline",
             tags |-> <<"regression">>,
             pre  |-> getSetupFunctionForTargetedIndex(fieldsToIndex, documentGenerator,
                                                       documentCount),
             ops  |-> operationList])

\* ------------------------------------------------- top-level statements
\* A top-level statement of a scenario file has the shape
\*   fieldList = getNFieldNames(n);
\*   make<Standalone|Comparison>ReadTest(name, fieldList, <query builder>(fieldList,
\*       numDocuments), <generator builder>(fieldList, ...), numDocuments);
MakeKinds == {"makeStandaloneReadTest", "makeComparisonReadTest"}
QueryKinds == {"getPointQueryList", "getTwoPointQueryList",
               "getRangeQueryList", "getRangeSortQueryList"}
GenKinds == {"scalar", "sharedArray", "rotating"}
\* The make call and the generator kind of a statement, as the two files
\* pair them: the rotating generator feeds a standalone case, the shared
\* array generator comparison cases, the scalar generator both.
StatementShapes ==
    {<<"makeStandaloneReadTest", "rotating">>,
     <<"makeStandaloneReadTest", "scalar">>,
     <<"makeComparisonReadTest", "scalar">>,
     <<"makeComparisonReadTest", "sharedArray">>}
\* Field counts of a statement: none (a configuration error), one, two (what
\* getTwoPointQueryList asks for).
FieldCounts == {0, 1, 2}

StatementName(query) ==
    CASE query = "getPointQueryList" -> "PointQueryOnFields"
      [] query = "getTwoPointQueryList" -> "PointQueryOnTwoFields"
      [] query = "getRangeQueryList" -> "RangeQueryOnFields"
      [] query = "getRangeSortQueryList" -> "RangeSortQueryOnFields"

\* The query-list builder named `query` of file f, called.
BuildQueryList(f, query, fieldList, numDocs, state) ==
    CASE query = "getPointQueryList" -> getPointQueryList(fieldList, numDocs, state)
      [] query = "getTwoPointQueryList" -> getTwoPointQueryList(fieldList, numDocs, state)
      [] query = "getRangeQueryList" -> getRangeQueryList(f, fieldList, numDocs, state)
      [] query = "getRangeSortQueryList" ->
            getRangeSortQueryList(f, fieldList, numDocs, state)

\* The generator builder of kind `gen` of file f, called.
BuildGenerator(f, gen, fieldList, documentCount, arraySize) ==
    IF f = PartFile
    THEN CASE gen = "scalar" -> getDocumentGenerator(fieldList, documentCount)
           [] gen = "sharedArray" ->
                getTopLevelArrayDocumentGenerator(fieldList, documentCount, arraySize)
           [] gen = "rotating" ->
                getTopLevelArraySingleFieldPerDocumentGenerator_part000(
                    fieldList, documentCount, arraySize)
    ELSE CASE gen = "scalar" -> getMultiFieldPathToIntegerDocumentGenerator(fieldList)
           [] gen = "sharedArray" ->
                getTopLevelArrayMultiFieldDocumentGenerator(fieldList, arraySize)
           [] gen = "rotating" ->
                getTopLevelArraySingleFieldPerDocumentGenerator(fieldList, arraySize)

\* The documentCount argument of the make calls: the statements of
\* wildcard_index_query.js pass numDocuments, those of part_000 pass four
\* arguments and leave it out.
StatementDocumentCount(f) == IF f = PartFile THEN undefined ELSE Number(numDocuments)

\* How many cases a make call registers.
AddCalls(make) == IF make = "makeComparisonReadTest" THEN 2 ELSE 1

\* The statement evaluated in a process whose registry is `registry` and
\* whose Random state is `state`: JavaScript evaluates the arguments left to
\* right, so a builder that throws ends the load before the make call.
Evaluate(f, registry, state, make, n, query, gen) ==
    LET fieldList == getNFieldNames(n)
        ops == BuildQueryList(f, query, fieldList, numDocuments, state)
        generator == IF ops.threw THEN Threw
                     ELSE BuildGenerator(f, gen, fieldList, numDocuments, defaultArraySize)
        threw == ops.threw \/ generator.threw
        name == StatementName(query)
    IN  [threw |-> threw,
         rng   |-> ops.rng,
         log   |-> ops.log,
         operationList |-> ops.list,
         tests |-> IF threw THEN registry
                   ELSE IF make = "makeComparisonReadTest"
                   THEN makeComparisonReadTest(f, registry, name, fieldList, ops.list,
                                               generator.value, StatementDocumentCount(f))
                   ELSE makeStandaloneReadTest(f, registry, name, fieldList, ops.list,
                                               generator.value, StatementDocumentCount(f))]

NoStatement ==
    [make |-> "", name |-> "", fieldsToIndex |-> <<>>, query |-> "", gen |-> "",
     operationList |-> <<>>, threw |-> FALSE]

IdleRun == [state |-> "idle", case |-> 0, next |-> 0, entry |-> <<>>]
EmptyCollection == [docs |-> <<>>, indexes |-> <<>>]
NoCall == [fn |-> "", args |-> <<>>, result |-> <<>>]

\* ------------------------------------------------------------- the build
Init ==
    /\ file = ""
    /\ loaded = {}
    /\ pc = "start"
    /\ testsType = "undefined"
    /\ tests = <<>>
    /\ rng \in StartStates
    /\ rngB = rng
    /\ rngStart = <<rng, rngB>>
    /\ rlog = <<>>
    /\ stmt = NoStatement
    /\ testsB = <<>>
    /\ run = IdleRun
    /\ coll = EmptyCollection
    /\ calls = <<>>
    /\ call = NoCall
    /\ ip = 0
    /\ scriptFieldList = <<>>

\* Whether the head of file f sets the seed: part_000 does (line 5).
HeadSeeds(f) == f = PartFile

\* The head of a file: the lazy initialisation of the registry and, in
\* part_000, Random.setRandomSeed(11010).
FileHead(f) ==
    /\ pc \in {"start", "done"}
    /\ f \notin loaded
    /\ file' = f
    /\ loaded' = loaded \cup {f}
    /\ pc' = "body"
    /\ testsType' = "object"
    /\ tests' = LazyInit(testsType, tests)
    /\ rng' = IF HeadSeeds(f) THEN SetRandomSeed(Seed) ELSE rng
    /\ rlog' = IF HeadSeeds(f) THEN << <<SeedEvent("toplevel")>> >> ELSE << <<>> >>
    /\ stmt' = NoStatement
    /\ UNCHANGED <<rngStart, run, coll, calls, call>>

LoadFile(f) ==
    /\ FileHead(f)
    /\ UNCHANGED <<testsB, rngB, ip, scriptFieldList>>

\* One top-level statement.
TopLevel(make, n, query, gen) ==
    /\ pc = "body"
    /\ Len(tests) + AddCalls(make) <= MaxTests
    /\ LET a == Evaluate(file, tests, rng, make, n, query, gen)
       IN  /\ tests' = a.tests
           /\ rng' = a.rng
           /\ rlog' = Append(rlog, a.log)
           /\ pc' = IF a.threw THEN "aborted" ELSE "body"
           /\ stmt' = [make |-> make, name |-> StatementName(query),
                       fieldsToIndex |-> getNFieldNames(n), query |-> query,
                       gen |-> gen, operationList |-> a.operationList,
                       threw |-> a.threw]
    /\ UNCHANGED <<file, loaded, testsType, rngStart, run, coll, calls, call, ip,
                   scriptFieldList>>

Statement(make, n, query, gen) ==
    /\ Len(tests) + AddCalls(make) <= MaxTests
    /\ TopLevel(make, n, query, gen)
    /\ UNCHANGED <<testsB, rngB>>

\* The end of the file is reached.
Finish ==
    /\ pc = "body"
    /\ pc' = "done"
    /\ UNCHANGED <<file, loaded, testsType, tests, rng, rngStart, rlog, stmt,
                   testsB, rngB, run, coll, calls, call, ip,
                   scriptFieldList>>

Next ==
    \/ \E f \in Files : LoadFile(f)
    \/ \E sh \in StatementShapes, n \in FieldCounts, query \in QueryKinds :
          Statement(sh[1], n, query, sh[2])
    \/ Finish

Spec == Init /\ [][Next]_vars

\* ------------------------------------------------ two builds of one file
\* Two processes, each with an absent registry and its own Random stream in
\* whatever state, load the same file: the same statements run in both.
PairInit ==
    /\ file = ""
    /\ loaded = {}
    /\ pc = "start"
    /\ testsType = "undefined"
    /\ tests = <<>>
    /\ rng \in StartStates
    /\ rngB \in StartStates
    /\ rngStart = <<rng, rngB>>
    /\ rlog = <<>>
    /\ stmt = NoStatement
    /\ testsB = <<>>
    /\ run = IdleRun
    /\ coll = EmptyCollection
    /\ calls = <<>>
    /\ call = NoCall
    /\ ip = 0
    /\ scriptFieldList = <<>>

PairLoadFile(f) ==
    /\ pc = "start"
    /\ FileHead(f)
    /\ testsB' = LazyInit(testsType, testsB)
    /\ rngB' = IF HeadSeeds(f) THEN SetRandomSeed(Seed) ELSE rngB
    /\ UNCHANGED <<ip, scriptFieldList>>

\* A complete build has no statement that throws, so only those run here.
PairStatement(make, n, query, gen) ==
    /\ Len(tests) + AddCalls(make) <= MaxPairTests
    /\ TopLevel(make, n, query, gen)
    /\ LET b == Evaluate(file, testsB, rngB, make, n, query, gen)
       IN  /\ ~b.threw
           /\ testsB' = b.tests
           /\ rngB' = b.rng

PairNext ==
    \/ \E f \in Files : PairLoadFile(f)
    \/ \E sh \in StatementShapes, n \in FieldCounts, query \in QueryKinds :
          PairStatement(sh[1], n, query, sh[2])
    \/ Finish

PairSpec == PairInit /\ [][PairNext]_vars

\* ------------------------------------------------------------ setup runs
\* The runner calls the setup function of a registered case against a
\* collection; the store answers each createIndex by accepting or rejecting.
PopulationKinds ==
    {"getDocumentGenerator", "getTopLevelArrayDocumentGenerator",
     "getTopLevelArraySingleFieldPerDocumentGenerator_part000"}

\* The documents a setup function inserts: part_000 calls
\* documentGenerator(collection, documentCount), wildcard_index_query.js
\* calls populateCollection(documentGenerator, collection, documentCount).
Populate(pre) ==
    IF pre.documentGenerator.kind \in PopulationKinds
    THEN CallPopulationFunction(pre.documentGenerator)
    ELSE populateCollection(pre.documentGenerator, LoopCount(pre.documentCount))

CollectionCall(op, arg, options, ok) ==
    [op |-> op, arg |-> arg, options |-> options, ok |-> ok]

NoOptions == [defined |-> FALSE, sparse |-> FALSE, wildcardProjection |-> <<>>]

\* Mutant: the wildcard-index setup passes its projection even when
\* fieldsToIndex is empty.
IndexCalls_AlwaysProjects(pre) ==
    IF pre.setup = "TargetedIndex"
    THEN [i \in 1..Len(pre.fieldsToIndex) |->
            <<[key |-> pre.fieldsToIndex[i], dir |-> 1],
              [defined |-> TRUE, sparse |-> TRUE, wildcardProjection |-> <<>>]>>]
    ELSE << <<[key |-> "$**", dir |-> 1],
              [defined |-> TRUE, sparse |-> FALSE,
               wildcardProjection |-> [k \in Range(pre.fieldsToIndex) |-> 1]]>> >>

\* The createIndex calls a setup function issues when none is rejected, as
\* <<index spec, options>> pairs.
IndexCalls(pre) ==
    IF pre.setup = "TargetedIndex"
    THEN [i \in 1..Len(pre.fieldsToIndex) |->
            <<[key |-> pre.fieldsToIndex[i], dir |-> 1],
              [defined |-> TRUE, sparse |-> TRUE, wildcardProjection |-> <<>>]>>]
    ELSE LET proj == [k \in Range(pre.fieldsToIndex) |-> 1]
             indexOptions == IF Len(pre.fieldsToIndex) > 0
                             THEN [defined |-> TRUE, sparse |-> FALSE,
                                   wildcardProjection |-> proj]
                             ELSE NoOptions
         IN  << <<[key |-> "$**", dir |-> 1], indexOptions>> >>

\* Mutant: a rejected command is not noticed.
CommandWorkedThrows_Never(ok) == FALSE

\* assert.commandWorked(res) throws when the store rejected the command.
CommandWorkedThrows(ok) == ~ok

SetupInit ==
    /\ file \in Files
    /\ loaded = {file}
    /\ pc = "done"
    /\ testsType = "object"
    /\ rng = SetRandomSeed(Seed)
    /\ rngB = rng
    /\ rngStart = <<rng, rngB>>
    /\ rlog = <<>>
    /\ stmt = NoStatement
    /\ testsB = <<>>
    /\ \E make \in MakeKinds, n \in 0..MaxFields, gen \in GenKinds, k \in 1..MaxFields,
          count \in 0..MaxDocs, arraySize \in 0..MaxArraySize,
          documentCount \in {undefined} \cup {Number(d) : d \in 0..MaxDocs} :
          LET fieldsToIndex == getNFieldNames(n)
              ops == getPointQueryList(fieldsToIndex, numDocuments, rng).list
              generator == BuildGenerator(file, gen, getNFieldNames(k), count,
                                          arraySize).value
          IN  /\ gen = "scalar" => arraySize = 0
              /\ file = WildcardFile => documentCount = Number(count)
              /\ tests = IF make = "makeComparisonReadTest"
                         THEN makeComparisonReadTest(file, <<>>, "PointQueryOnFields",
                                  fieldsToIndex, ops, generator, documentCount)
                         ELSE makeStandaloneReadTest(file, <<>>, "PointQueryOnFields",
                                  fieldsToIndex, ops, generator, documentCount)
    /\ run = IdleRun
    /\ coll = EmptyCollection
    /\ calls = <<>>
    /\ call = NoCall
    /\ ip = 0
    /\ scriptFieldList = <<>>

\* The runner calls tests[i].pre(collection): drop(), the inserts, and the
\* function goes on to its createIndex calls, if it has any to make.
StartSetup(i) ==
    /\ run.state \in {"idle", "done", "failed"}
    /\ i \in 1..Len(tests)
    /\ LET pre == tests[i].pre
           docs == Populate(pre)
       IN  /\ calls' = <<CollectionCall("drop", <<>>, NoOptions, TRUE)>>
                         \o [d \in 1..Len(docs) |->
                                CollectionCall("insert", docs[d], NoOptions, TRUE)]
           /\ coll' = [docs |-> docs, indexes |-> <<>>]
           /\ run' = [state |-> IF Len(IndexCalls(pre)) = 0 THEN "done" ELSE "createIndex",
                      case |-> i, next |-> 1, entry |-> tests[i]]
    /\ UNCHANGED <<file, loaded, pc, testsType, tests, rng, rngStart, rlog, stmt,
                   testsB, rngB, call, ip,
                   scriptFieldList>>

\* The next createIndex call of the running setup function, answered by the
\* store; assert.commandWorked ends the run in a fatal error on a rejection.
CreateIndex(ok) ==
    /\ run.state = "createIndex"
    /\ LET pre == tests[run.case].pre
           c == IndexCalls(pre)[run.next]
       IN  /\ calls' = Append(calls, CollectionCall("createIndex", c[1], c[2], ok))
           /\ coll' = IF ok THEN [coll EXCEPT !.indexes = Append(@, c)] ELSE coll
           /\ run' = IF CommandWorkedThrows(ok)
                     THEN [run EXCEPT !.state = "failed"]
                     ELSE IF run.next = Len(IndexCalls(pre))
                     THEN [run EXCEPT !.state = "done"]
                     ELSE [run EXCEPT !.next = @ + 1]
    /\ UNCHANGED <<file, loaded, pc, testsType, tests, rng, rngStart, rlog, stmt,
                   testsB, rngB, call, ip,
                   scriptFieldList>>

SetupNext ==
    \/ \E i \in 1..MaxTests : StartSetup(i)
    \/ \E ok \in BOOLEAN : CreateIndex(ok)

SetupSpec == SetupInit /\ [][SetupNext]_vars

\* --------------------------------------------------- the library functions
\* Calls of the files' functions on inputs of any kind the bounds allow.
Paths == {"a", "a.b", "a.c", "a.b.c"}

PathLists == UNION {[1..k -> Paths] : k \in 1..MaxPaths} \cup {<<"a.b", "c">>}

FieldLists == {getNFieldNames(n) : n \in 0..MaxFields} \cup {<<"non-existent">>}

\* Non-empty field lists handed to the array generators (repeats included).
ArrayFieldLists == UNION {[1..k -> {"x", "y"}] : k \in 1..MaxFields}

\* Array sizes handed to the array generators.
ArraySizes == (0..MaxArraySize) \cup {3, 4}

FnInit ==
    /\ file \in Files
    /\ loaded = {file}
    /\ pc = "done"
    /\ testsType = "object"
    /\ tests = <<>>
    /\ rng \in StartStates
    /\ rngB = rng
    /\ rngStart = <<rng, rngB>>
    /\ rlog = <<>>
    /\ stmt = NoStatement
    /\ testsB = <<>>
    /\ run = IdleRun
    /\ coll = EmptyCollection
    /\ calls = <<>>
    /\ call = NoCall
    /\ ip = 0
    /\ scriptFieldList = <<>>

FnFrame ==
    UNCHANGED <<file, loaded, pc, testsType, tests, rngStart, rlog, stmt, testsB,
                rngB, run, coll, calls, ip, scriptFieldList>>

CallGetNFieldNames(n) ==
    /\ call = NoCall
    /\ call' = [fn |-> "getNFieldNames", args |-> <<n>>, result |-> getNFieldNames(n)]
    /\ UNCHANGED rng
    /\ FnFrame

CallGetNFieldNamesAtGivenDepth(n, depth) ==
    /\ call = NoCall
    /\ call' = [fn |-> "getNFieldNamesAtGivenDepth", args |-> <<n, depth>>,
                result |-> getNFieldNamesAtGivenDepth(n, depth)]
    /\ UNCHANGED rng
    /\ FnFrame

\* A query-list builder of the loaded file, called on a field list.
CallQueryList(query, fieldList, numDocs) ==
    /\ call = NoCall
    /\ query = "getTwoPointQueryList" => Len(fieldList) = 2
    /\ LET r == BuildQueryList(file, query, fieldList, numDocs, rng)
       IN  /\ call' = [fn |-> query, args |-> <<fieldList, numDocs>>, result |-> r.list]
           /\ rng' = r.rng
    /\ FnFrame

\* The scalar generator of the loaded file, built and applied to a seed: the
\* seed function of wildcard_index_query.js returns the document, the
\* population function of part_000 inserts it as its document number `seed`.
CallScalarGenerator(fieldList, seed) ==
    /\ call = NoCall
    /\ call' = [fn |-> "scalarGenerator", args |-> <<fieldList, seed>>,
                result |->
                   IF file = PartFile
                   THEN CallPopulationFunction(
                            getDocumentGenerator(fieldList, seed + 1).value)[seed + 1]
                   ELSE CallSeedFunction(
                            getMultiFieldPathToIntegerDocumentGenerator(fieldList).value,
                            seed)]
    /\ UNCHANGED rng
    /\ FnFrame

\* The shared-array generator of wildcard_index_query.js, built and applied
\* to a seed.
CallSharedArrayGenerator(fieldList, arraySize, seed) ==
    /\ call = NoCall
    /\ file = WildcardFile
    /\ LET gen == getTopLevelArrayMultiFieldDocumentGenerator(fieldList, arraySize)
       IN  /\ ~gen.threw
           /\ call' = [fn |-> "getTopLevelArrayMultiFieldDocumentGenerator",
                       args |-> <<fieldList, arraySize, seed>>,
                       result |-> CallSeedFunction(gen.value, seed)]
    /\ UNCHANGED rng
    /\ FnFrame

\* The rotating generator of wildcard_index_query.js, built and applied to a
\* seed.
CallRotatingGenerator(fieldList, arraySize, seed) ==
    /\ call = NoCall
    /\ file = WildcardFile
    /\ LET gen == getTopLevelArraySingleFieldPerDocumentGenerator(fieldList, arraySize)
       IN  /\ ~gen.threw
           /\ call' = [fn |-> "getTopLevelArraySingleFieldPerDocumentGenerator",
                       args |-> <<fieldList, arraySize, seed>>,
                       result |-> CallSeedFunction(gen.value, seed)]
    /\ UNCHANGED rng
    /\ FnFrame

\* The rotating generator of part_000, built and applied to a collection:
\* the result is the sequence of documents it inserts.
CallRotatingPopulation(fieldList, documentCount, arraySize) ==
    /\ call = NoCall
    /\ file = PartFile
    /\ LET gen == getTopLevelArraySingleFieldPerDocumentGenerator_part000(
                      fieldList, documentCount, arraySize)
       IN  /\ ~gen.threw
           /\ call' = [fn |-> "getTopLevelArraySingleFieldPerDocumentGenerator_part000",
                       args |-> <<fieldList, documentCount, arraySize>>,
                       result |-> CallPopulationFunction(gen.value)]
    /\ UNCHANGED rng
    /\ FnFrame

\* The caller takes the result; the next call can be made.
Return ==
    /\ call # NoCall
    /\ call' = NoCall
    /\ UNCHANGED rng
    /\ FnFrame

FnNext ==
    \/ \E n \in 0..MaxFields : CallGetNFieldNames(n)
    \/ \E n \in 0..MaxFields, depth \in 0..MaxDepth : CallGetNFieldNamesAtGivenDepth(n, depth)
    \/ \E query \in QueryKinds, fieldList \in FieldLists,
          numDocs \in ((RangeWidth + 1)..(RangeWidth + 1 + MaxExtraDocs))
                         \cup {numDocuments} :
          CallQueryList(query, fieldList, numDocs)
    \/ \E fieldList \in PathLists, seed \in 0..MaxSeed : CallScalarGenerator(fieldList, seed)
    \/ \E fieldList \in ArrayFieldLists, arraySize \in ArraySizes, seed \in (-1)..MaxSeed :
          CallSharedArrayGenerator(fieldList, arraySize, seed)
    \/ \E fieldList \in ArrayFieldLists, arraySize \in ArraySizes, seed \in 0..(MaxSeed + 2) :
          CallRotatingGenerator(fieldList, arraySize, seed)
    \/ \E fieldList \in ArrayFieldLists, documentCount \in 0..(MaxDocs + 1),
          arraySize \in ArraySizes :
          CallRotatingPopulation(fieldList, documentCount, arraySize)
    \/ Return

FnSpec == FnInit /\ [][FnNext]_vars

\* ------------------------------------------------- the files' own scripts
\* The top-level statements of each file, in file order: assignments to the
\* global fieldList and calls of the make functions.
Assign(n) == [kind |-> "assign", n |-> n, depth |-> 0, atDepth |-> FALSE]

AssignAtDepth(n, depth) == [kind |-> "assign", n |-> n, depth |-> depth, atDepth |-> TRUE]

\* make(name, fieldsToIndex, query(queryFields, maxValue), gen(fieldList, ..)):
\* fieldsToIndex and queryFields say which list is passed ("fieldList",
\* "first" for [fieldList[0]], "nonExistent" for ["non-existent"]).
Make(make, name, fieldsToIndex, query, queryFields, maxValue, gen, arraySize) ==
    [kind |-> "make", make |-> make, name |-> name, fieldsToIndex |-> fieldsToIndex,
     query |-> query, queryFields |-> queryFields, maxValue |-> maxValue,
     gen |-> gen, arraySize |-> arraySize]

PartScript ==
    << Assign(100),
       Make("makeStandaloneReadTest", "PointQueryAgainstCollectionWith100MultikeyPaths", "fieldList", "getPointQueryList", "first", 10, "rotating", 10),
       Assign(1),
       Make("makeComparisonReadTest", "PointQueryOnSingleField", "fieldList", "getPointQueryList", "fieldList", numDocuments, "scalar", 0),
       Assign(10),
       Make("makeComparisonReadTest", "PointQueryOnMultipleFields", "fieldList", "getPointQueryList", "fieldList", numDocuments, "scalar", 0),
       Assign(1),
       Make("makeComparisonReadTest", "PointQueryOnSingleArrayField", "fieldList", "getPointQueryList", "fieldList", numDocuments, "sharedArray", defaultArraySize),
       Assign(10),
       Make("makeComparisonReadTest", "PointQueryOnMultipleArrayFields", "fieldList", "getPointQueryList", "fieldList", numDocuments, "sharedArray", defaultArraySize),
       AssignAtDepth(1, 10),
       Make("makeComparisonReadTest", "PointQueryOnSingleDeeplyNestedField", "fieldList", "getPointQueryList", "fieldList", numDocuments, "scalar", 0),
       AssignAtDepth(10, 10),
       Make("makeComparisonReadTest", "PointQueryOnMultipleDeeplyNestedFields", "fieldList", "getPointQueryList", "fieldList", numDocuments, "scalar", 0),
       Assign(1),
       Make("makeComparisonReadTest", "RangeQueryOnSingleField", "fieldList", "getRangeQueryList", "fieldList", numDocuments, "scalar", 0),
       Assign(10),
       Make("makeComparisonReadTest", "RangeQueryOnMultipleFields", "fieldList", "getRangeQueryList", "fieldList", numDocuments, "scalar", 0),
       Assign(1),
       Make("makeComparisonReadTest", "RangeQueryOnSingleArrayField", "fieldList", "getRangeQueryList", "fieldList", numDocuments, "sharedArray", defaultArraySize),
       Assign(10),
       Make("makeComparisonReadTest", "RangeQueryOnMultipleArrayFields", "fieldList", "getRangeQueryList", "fieldList", numDocuments, "sharedArray", defaultArraySize),
       AssignAtDepth(1, 10),
       Make("makeComparisonReadTest", "RangeQueryOnSingleDeeplyNestedField", "fieldList", "getRangeQueryList", "fieldList", numDocuments, "scalar", 0),
       AssignAtDepth(10, 10),
       Make("makeComparisonReadTest", "RangeQueryOnMultipleDeeplyNestedFields", "fieldList", "getRangeQueryList", "fieldList", numDocuments, "scalar", 0),
       Assign(1),
       Make("makeComparisonReadTest", "RangeSortQueryOnSingleField", "fieldList", "getRangeSortQueryList", "fieldList", numDocuments, "scalar", 0),
       Assign(10),
       Make("makeComparisonReadTest", "RangeSortQueryOnMultipleFields", "fieldList", "getRangeSortQueryList", "fieldList", numDocuments, "scalar", 0),
       Assign(1),
       Make("makeComparisonReadTest", "RangeSortQueryOnSingleArrayField", "fieldList", "getRangeSortQueryList", "fieldList", numDocuments, "sharedArray", defaultArraySize),
       Assign(10),
       Make("makeComparisonReadTest", "RangeSortQueryOnMultipleArrayFields", "fieldList", "getRangeSortQueryList", "fieldList", numDocuments, "sharedArray", defaultArraySize),
       AssignAtDepth(1, 10),
       Make("makeComparisonReadTest", "RangeSortQueryOnSingleDeeplyNestedField", "fieldList", "getRangeSortQueryList", "fieldList", numDocuments, "scalar", 0),
       AssignAtDepth(10, 10),
       Make("makeComparisonReadTest", "RangeSortQueryOnMultipleDeeplyNestedFields", "fieldList", "getRangeSortQueryList", "fieldList", numDocuments, "scalar", 0),
       Assign(2),
       Make("makeComparisonReadTest", "PointQueryOnTwoFields", "fieldList", "getTwoPointQueryList", "fieldList", numDocuments, "scalar", 0),
       Assign(2),
       Make("makeComparisonReadTest", "PointQueryOnTwoArrayFields", "fieldList", "getTwoPointQueryList", "fieldList", numDocuments, "sharedArray", defaultArraySize),
       AssignAtDepth(2, 10),
       Make("makeComparisonReadTest", "PointQueryOnTwoDeeplyNestedFields", "fieldList", "getTwoPointQueryList", "fieldList", numDocuments, "scalar", 0),
       Assign(1),
       Make("makeComparisonReadTest", "PointQueryOnSingleNonExistentField", "nonExistent", "getPointQueryList", "nonExistent", numDocuments, "scalar", 0) >>

WildcardScript ==
    << Assign(100),
       Make("makeStandaloneReadTest", "PointQueryAgainstCollectionWith100MultikeyPaths", "fieldList", "getPointQueryList", "first", 10, "rotating", 10),
       Assign(1),
       Make("makeStandaloneReadTest", "PointQueryOnSingleNonExistentField", "nonExistent", "getPointQueryList", "nonExistent", numDocuments, "scalar", 0),
       Assign(1),
       Make("makeComparisonReadTest", "PointQueryOnSingleField", "fieldList", "getPointQueryList", "fieldList", numDocuments, "scalar", 0),
       Assign(10),
       Make("makeComparisonReadTest", "PointQueryOnMultipleFields", "fieldList", "getPointQueryList", "fieldList", numDocuments, "scalar", 0),
       Assign(1),
       Make("makeComparisonReadTest", "PointQueryOnSingleArrayField", "fieldList", "getPointQueryList", "fieldList", numDocuments, "sharedArray", defaultArraySize),
       Assign(10),
       Make("makeComparisonReadTest", "PointQueryOnMultipleArrayFields", "fieldList", "getPointQueryList", "fieldList", numDocuments, "sharedArray", defaultArraySize),
       Assign(1),
       Make("makeComparisonReadTest", "RangeQueryOnSingleField", "fieldList", "getRangeQueryList", "fieldList", numDocuments, "scalar", 0),
       Assign(10),
       Make("makeComparisonReadTest", "RangeQueryOnMultipleFields", "fieldList", "getRangeQueryList", "fieldList", numDocuments, "scalar", 0),
       Assign(1),
       Make("makeComparisonReadTest", "RangeQueryOnSingleArrayField", "fieldList", "getRangeQueryList", "fieldList", numDocuments, "sharedArray", defaultArraySize),
       Assign(1),
       Make("makeComparisonReadTest", "RangeSortQueryOnSingleField", "fieldList", "getRangeSortQueryList", "fieldList", numDocuments, "scalar", 0),
       Assign(10),
       Make("makeComparisonReadTest", "RangeSortQueryOnMultipleFields", "fieldList", "getRangeSortQueryList", "fieldList", numDocuments, "scalar", 0),
       Assign(1),
       Make("makeComparisonReadTest", "RangeSortQueryOnSingleArrayField", "fieldList", "getRangeSortQueryList", "fieldList", numDocuments, "sharedArray", defaultArraySize),
       Assign(2),
       Make("makeComparisonReadTest", "PointQueryOnTwoFields", "fieldList", "getTwoPointQueryList", "fieldList", numDocuments, "scalar", 0),
       Assign(2),
       Make("makeComparisonReadTest", "PointQueryOnTwoArrayFields", "fieldList", "getTwoPointQueryList", "fieldList", numDocuments, "sharedArray", defaultArraySize) >>

Script(f) == IF f = PartFile THEN PartScript ELSE WildcardScript

\* The list an argument of a make call denotes.
ArgumentList(which, fieldList) ==
    CASE which = "fieldList" -> fieldList
      [] which = "first" -> <<fieldList[1]>>
      [] which = "nonExistent" -> <<"non-existent">>

\* A make statement of the script evaluated in a process whose registry is
\* `registry`, whose Random state is `state` and whose fieldList is
\* `fieldList`: the arguments left to right, then the make call.
EvaluateMake(f, registry, state, st, fieldList) ==
    LET fieldsToIndex == ArgumentList(st.fieldsToIndex, fieldList)
        ops == BuildQueryList(f, st.query, ArgumentList(st.queryFields, fieldList),
                              st.maxValue, state)
        generator == IF ops.threw THEN Threw
                     ELSE BuildGenerator(f, st.gen, fieldList, numDocuments, st.arraySize)
        threw == ops.threw \/ generator.threw
    IN  [threw |-> threw,
         rng   |-> ops.rng,
         log   |-> ops.log,
         operationList |-> ops.list,
         fieldsToIndex |-> fieldsToIndex,
         tests |-> IF threw THEN registry
                   ELSE IF st.make = "makeComparisonReadTest"
                   THEN makeComparisonReadTest(f, registry, st.name, fieldsToIndex,
                            ops.list, generator.value, StatementDocumentCount(f))
                   ELSE makeStandaloneReadTest(f, registry, st.name, fieldsToIndex,
                            ops.list, generator.value, StatementDocumentCount(f))]

\* The head of a file and its `var fieldList = []`.
ScriptHead(f) ==
    /\ FileHead(f)
    /\ ip' = 0
    /\ scriptFieldList' = <<>>
    /\ UNCHANGED <<testsB, rngB>>

\* fieldList = getNFieldNames(n) or getNFieldNamesAtGivenDepth(n, depth).
ScriptAssign ==
    /\ pc = "body"
    /\ ip < Len(Script(file))
    /\ LET st == Script(file)[ip + 1]
       IN  /\ st.kind = "assign"
           /\ scriptFieldList' = IF st.atDepth
                                 THEN getNFieldNamesAtGivenDepth(st.n, st.depth)
                                 ELSE getNFieldNames(st.n)
    /\ ip' = ip + 1
    /\ UNCHANGED <<file, loaded, pc, testsType, tests, rng, rngStart, rlog, stmt,
                   testsB, rngB, run, coll, calls, call>>

\* A call of makeStandaloneReadTest or makeComparisonReadTest.
ScriptMake ==
    /\ pc = "body"
    /\ ip < Len(Script(file))
    /\ LET st == Script(file)[ip + 1]
           a == EvaluateMake(file, tests, rng, st, scriptFieldList)
       IN  /\ st.kind = "make"
           /\ tests' = a.tests
           /\ rng' = a.rng
           /\ rlog' = Append(rlog, a.log)
           /\ pc' = IF a.threw THEN "aborted" ELSE "body"
           /\ stmt' = [make |-> st.make, name |-> st.name,
                       fieldsToIndex |-> a.fieldsToIndex, query |-> st.query,
                       gen |-> st.gen, operationList |-> a.operationList,
                       threw |-> a.threw]
    /\ ip' = ip + 1
    /\ UNCHANGED <<file, loaded, testsType, rngStart, testsB, rngB, run, coll, calls,
                   call, scriptFieldList>>

\* The end of the file is reached.
ScriptFinish ==
    /\ pc = "body"
    /\ ip = Len(Script(file))
    /\ pc' = "done"
    /\ UNCHANGED <<file, loaded, testsType, tests, rng, rngStart, rlog, stmt,
                   testsB, rngB, run, coll, calls, call, ip, scriptFieldList>>

ScriptNext ==
    \/ \E f \in Files : ScriptHead(f)
    \/ ScriptAssign
    \/ ScriptMake
    \/ ScriptFinish

ScriptSpec == Init /\ [][ScriptNext]_vars

\* ------------------------------------------------------ claims on the build
\* A step that evaluates a top-level statement which did not throw.
StatementDone == pc = "body" /\ pc' = "body"

\* A step that runs the head of a file.
HeadDone == pc # "body" /\ pc' = "body"

\* C1: every makeComparisonReadTest call, in both files, grows the registry
\* by exactly two entries, the wildcard-index case first and the baseline
\* case second; both carry the operationList passed in and the same tags,
\* and they differ only in name (the second is the first plus ".Baseline")
\* and in pre (wildcard-index setup, targeted-index setup over the same
\* fieldsToIndex, generator and documentCount).
C1_ComparisonAppendsPair ==
    [][(StatementDone /\ stmt'.make = "makeComparisonReadTest") =>
         /\ Len(tests') = Len(tests) + 2
         /\ SubSeq(tests', 1, Len(tests)) = tests
         /\ LET w == tests'[Len(tests) + 1]
                b == tests'[Len(tests) + 2]
            IN  /\ w.ops = stmt'.operationList
                /\ b.ops = w.ops
                /\ b.tags = w.tags
                /\ w.name = NamePrefix \o stmt'.name
                /\ b.name = w.name \o ".Baseline"
                /\ w.pre.setup = "WildcardIndex"
                /\ b.pre.setup = "TargetedIndex"
                /\ [w.pre EXCEPT !.setup = "TargetedIndex"] = b.pre
                /\ [w EXCEPT !.name = b.name, !.pre = b.pre] = b]_vars

C1_Witness ==
    /\ pc = "body"
    /\ stmt.make = "makeComparisonReadTest"
    /\ stmt.query = "getRangeQueryList"
    /\ Len(tests) = 2
    /\ tests[2].name = tests[1].name \o ".Baseline"

\* C2: the registry is append-only over statements and file loads: a
\* registry that exists keeps existing and keeps every entry in place, each
\* statement lengthens it by one entry per addTest/addReadTest call of its
\* make function, and the head of a file creates the empty sequence only when
\* the registry is absent and otherwise leaves it as it is.
C2_RegistryAppendOnly ==
    [][/\ testsType = "object" => (testsType' = "object" /\ IsPrefix(tests, tests'))
       /\ StatementDone => Len(tests') = Len(tests) + AddCalls(stmt'.make)
       /\ HeadDone => /\ testsType' = "object"
                      /\ tests' = IF testsType = "undefined" THEN <<>> ELSE tests]_vars

C2_Witness ==
    /\ loaded = Files
    /\ pc = "done"
    /\ Len(tests) = 2
    /\ tests[1].tags # tests[2].tags

\* The last statement evaluated has a configuration error: its generator is
\* built from the empty field list, or getTwoPointQueryList gets a field
\* list whose length is not 2.
ConfigError(st) ==
    /\ st.make # ""
    /\ \/ Len(st.fieldsToIndex) = 0
       \/ st.query = "getTwoPointQueryList" /\ Len(st.fieldsToIndex) # 2

\* C5: a statement with a configuration error ends the load in a fatal error
\* before its make call appends anything: the registry is left as it was.
C5_ConfigErrorAborts ==
    [][(pc = "body" /\ ConfigError(stmt')) =>
         /\ pc' = "aborted"
         /\ tests' = tests
         /\ testsType' = testsType]_vars

C5_Witness ==
    /\ pc = "aborted"
    /\ ConfigError(stmt)
    /\ stmt.query = "getTwoPointQueryList"
    /\ Len(stmt.fieldsToIndex) = 1
    /\ Len(tests) >= 1

\* The Random calls of the current load, in the order they were made.
RECURSIVE Flatten(_)
Flatten(ss) == IF ss = <<>> THEN <<>> ELSE Head(ss) \o Flatten(Tail(ss))

IsSeed(e) == e.op = "setRandomSeed"
IsDraw(e) == e.op = "randInt"

\* C6 as stated: the seed is set exactly once per load, at the head of the
\* file, and every later Random call is a draw.
C6_SeedSetOnceAtStart ==
    pc # "start" =>
        LET log == Flatten(rlog)
        IN  /\ log # <<>>
            /\ log[1] = SeedEvent("toplevel")
            /\ \A i \in 2..Len(log) : IsDraw(log[i])

\* C6 amended: every draw follows a setting of the seed in the same load.
\* part_000 sets the seed exactly once, at the head of the file, and none of
\* its builders sets it. wildcard_index_query.js does not set it at the head:
\* each call of getRangeQueryList or getRangeSortQueryList sets it once, on
\* entry and before the draws of that call, and no other call touches Random.
C6_SeedSetBeforeEveryDraw ==
    pc # "start" =>
        /\ Len(rlog) >= 1
        /\ rlog[1] = IF file = PartFile THEN <<SeedEvent("toplevel")>> ELSE <<>>
        /\ \A k \in 2..Len(rlog) :
              LET es == rlog[k]
              IN  IF file = PartFile
                  THEN \A i \in 1..Len(es) : IsDraw(es[i])
                  ELSE es # <<>> =>
                         /\ IsSeed(es[1])
                         /\ es[1].by \in {"getRangeQueryList", "getRangeSortQueryList"}
                         /\ \A i \in 2..Len(es) : IsDraw(es[i]) /\ es[i].by = es[1].by
        /\ (stmt.make # "" /\ stmt.query \in {"getRangeQueryList", "getRangeSortQueryList"})
              => LET es == rlog[Len(rlog)]
                 IN  Len(es) = Len(stmt.fieldsToIndex)
                                 + (IF file = WildcardFile THEN 1 ELSE 0)

C6_Witness ==
    /\ file = WildcardFile
    /\ Len(rlog) = 3
    /\ Len(rlog[2]) = 3
    /\ Len(rlog[3]) = 2

\* C7: two builds of the same statements of the same file, each from an
\* absent registry and whatever state its Random stream started in, end with
\* registries of the same length whose entries agree pairwise in name, tags
\* and ops.
C7_BuildsAgree ==
    pc = "done" =>
        /\ Len(testsB) = Len(tests)
        /\ \A i \in 1..Len(tests) :
              /\ testsB[i].name = tests[i].name
              /\ testsB[i].tags = tests[i].tags
              /\ testsB[i].ops = tests[i].ops

C7_Witness ==
    /\ pc = "done"
    /\ file = WildcardFile
    /\ loaded = {WildcardFile}
    /\ rngStart[1] # rngStart[2]
    /\ Len(tests) = 2
    /\ stmt.query = "getRangeSortQueryList"
    /\ Len(tests[2].ops) = 2

\* ------------------------------------------------ claims on the setup runs
\* C3: when the store rejects a createIndex call of a setup run, the run
\* ends in a fatal error at that call: the rejected call is the last call
\* the run issues, and a run in a fatal error ended on a rejected createIndex.
C3_RejectionIsFatal ==
    /\ \A k \in 1..Len(calls) :
          (calls[k].op = "createIndex" /\ ~calls[k].ok) =>
             (k = Len(calls) /\ run.state = "failed")
    /\ run.state = "failed" =>
          /\ calls # <<>>
          /\ calls[Len(calls)].op = "createIndex"
          /\ ~calls[Len(calls)].ok

C3_Witness ==
    /\ run.state = "failed"
    /\ run.entry.pre.setup = "TargetedIndex"
    /\ Len(run.entry.pre.fieldsToIndex) = 2
    /\ run.next = 1
    /\ file = PartFile

\* The number of documents a setup function is to insert.
DocumentCountOf(pre) ==
    IF pre.documentGenerator.kind \in PopulationKinds
    THEN pre.documentGenerator.documentCount
    ELSE LoopCount(pre.documentCount)

\* C4 as stated: when a setup run fails, the build was aborted or the case is
\* no longer in the registry as a usable case (as it was registered).
C4_FailedSetupLeavesNoCase ==
    run.state = "failed" =>
        \/ pc = "aborted"
        \/ ~(run.case \in 1..Len(tests) /\ tests[run.case] = run.entry)

\* C4 amended: a setup run fails after the build has ended; the failure is
\* raised to the caller of the setup function, the case stays in the registry
\* exactly as it was registered, and the collection holds every document of
\* the case with only the indexes accepted before the rejected call.
C4_FailedSetupKeepsCase ==
    run.state = "failed" =>
        /\ pc = "done"
        /\ run.case \in 1..Len(tests)
        /\ tests[run.case] = run.entry
        /\ Len(coll.docs) = DocumentCountOf(run.entry.pre)
        /\ Len(coll.indexes) = run.next - 1
        /\ Len(coll.indexes) < Len(IndexCalls(run.entry.pre))

C4_Witness ==
    /\ run.state = "failed"
    /\ run.entry.pre.setup = "TargetedIndex"
    /\ Len(coll.docs) = 2
    /\ Len(coll.indexes) = 1
    /\ file = WildcardFile

\* -------------------------------------------- claims on the library functions
\* The field a find operation of a one-field query list asks for, and its
\* range predicate when it has one.
QueriedField(o, fn) ==
    IF fn = "getRangeSortQueryList" THEN o.query.query.field ELSE o.query.field

RangeOf(o, fn) ==
    IF fn = "getRangeSortQueryList" THEN o.query.query ELSE o.query

\* C8: getPointQueryList, getRangeQueryList and getRangeSortQueryList return
\* one find operation per field of the list, the i-th on the i-th field; for
\* numDocuments > 10 every range predicate is $gte = s, $lte = s + 10 with
\* 0 <= s < numDocuments - 10, and the sort of a range+sort query is on the
\* queried field, ascending.
C8_QueryListsFollowFields ==
    call.fn \in {"getPointQueryList", "getRangeQueryList", "getRangeSortQueryList"} =>
        LET fieldList == call.args[1]
            numDocs == call.args[2]
            list == call.result
        IN  /\ Len(list) = Len(fieldList)
            /\ \A i \in 1..Len(list) :
                  /\ list[i].op = "find"
                  /\ QueriedField(list[i], call.fn) = fieldList[i]
                  /\ call.fn # "getPointQueryList" =>
                        LET r == RangeOf(list[i], call.fn)
                        IN  /\ r.gte >= 0
                            /\ r.gte < numDocs - 10
                            /\ r.lte = r.gte + 10
                            /\ r.gte <= r.lte
                            /\ r.lte < numDocs
                  /\ call.fn = "getRangeSortQueryList" =>
                        list[i].query.orderby = [field |-> fieldList[i], dir |-> 1]

C8_Witness ==
    /\ call.fn = "getRangeSortQueryList"
    /\ Len(call.result) = 2
    /\ call.result[1].query.query.gte # call.result[2].query.query.gte
    /\ call.result[2].query.query.gte > 0

\* The names getNFieldNames(n) is to return.
FlatNames(n) == [i \in 1..n |-> "field-" \o ToString(i - 1)]

Distinct(names) ==
    \A i, j \in 1..Len(names) : i # j => names[i] # names[j]

\* C9: getNFieldNames(n) returns "field-0" .. "field-(n-1)" in order, all
\* distinct; getNFieldNamesAtGivenDepth(n, depth) returns n distinct names,
\* the i-th made of the depth segments "subObj-0" .. "subObj-(depth-1)" and
\* then "field-i", no segment empty, and equals getNFieldNames(n) at depth 0.
C9_FieldNames ==
    /\ call.fn = "getNFieldNames" =>
          /\ call.result = FlatNames(call.args[1])
          /\ Distinct(call.result)
    /\ call.fn = "getNFieldNamesAtGivenDepth" =>
          LET n == call.args[1]
              depth == call.args[2]
              names == call.result
          IN  /\ Len(names) = n
              /\ Distinct(names)
              /\ \A i \in 1..n :
                    LET segs == Split(names[i])
                    IN  /\ Len(segs) = depth + 1
                        /\ \A k \in 1..depth : segs[k] = "subObj-" \o ToString(k - 1)
                        /\ segs[depth + 1] = "field-" \o ToString(i - 1)
                        /\ \A k \in 1..Len(segs) : segs[k] # ""
              /\ depth = 0 => names = getNFieldNames(n)

\* Two dotted paths conflict when one is a proper dotted prefix of the other.
Conflict(p, q) ==
    \/ IsProperPrefix(Split(p), Split(q))
    \/ IsProperPrefix(Split(q), Split(p))

NoLaterConflict(fieldList, j) ==
    \A k \in (j + 1)..Len(fieldList) : ~Conflict(fieldList[j], fieldList[k])

\* C10: in the document the scalar generator makes for a seed, a listed path
\* with no conflicting path later in the list reads the seed; of two
\* conflicting paths the later one wins (it reads the seed when nothing
\* after it conflicts with it, and the earlier one does not); the field list
\* <<"a.b", "c">> gives {a: {b: seed}, c: seed}.
C10_ScalarGenerator ==
    call.fn = "scalarGenerator" =>
        LET fieldList == call.args[1]
            seed == call.args[2]
            doc == call.result
        IN  /\ \A j \in 1..Len(fieldList) :
                  NoLaterConflict(fieldList, j) =>
                     ReadPath(doc, fieldList[j]) = NumberNode(seed)
            /\ \A j, k \in 1..Len(fieldList) :
                  (j < k /\ Conflict(fieldList[j], fieldList[k])
                         /\ NoLaterConflict(fieldList, k)) =>
                     /\ ReadPath(doc, fieldList[k]) = NumberNode(seed)
                     /\ ReadPath(doc, fieldList[j]) # NumberNode(seed)
            /\ fieldList = <<"a.b", "c">> =>
                  /\ DOMAIN doc = {<<"a">>, <<"a", "b">>, <<"c">>}
                  /\ doc[<<"a">>] = ObjectNode
                  /\ doc[<<"a", "b">>] = NumberNode(seed)
                  /\ doc[<<"c">>] = NumberNode(seed)

C10_Witness ==
    /\ call.fn = "scalarGenerator"
    /\ call.args[1] = <<"a.b", "a", "a.c">>
    /\ call.args[2] = 1
    /\ DOMAIN call.result = {<<"a">>, <<"a", "c">>}

\* The top-level keys of a document.
KeysOf(doc) == {p[1] : p \in {q \in DOMAIN doc : Len(q) = 1}}

\* n / 2 rounded up, for n >= 0.
CeilHalf(n) == CHOOSE c \in 0..n : 2 * c >= n /\ 2 * c < n + 2

\* C11: the document the shared-array generator makes for a non-empty field
\* list, arraySize >= 0 and a seed has exactly the listed fields as keys, and
\* every field holds the same array: the contiguous increasing run of length
\* arraySize that starts at seed - ceil(arraySize / 2); field list <<"x">>,
\* arraySize 4, seed 0 gives {x: [-2, -1, 0, 1]}.
C11_SharedArrayGenerator ==
    call.fn = "getTopLevelArrayMultiFieldDocumentGenerator" =>
        LET fieldList == call.args[1]
            arraySize == call.args[2]
            seed == call.args[3]
            doc == call.result
            values == [j \in 1..arraySize |-> seed - CeilHalf(arraySize) + (j - 1)]
        IN  /\ DOMAIN doc = {<<fieldList[k]>> : k \in 1..Len(fieldList)}
            /\ \A p \in DOMAIN doc : doc[p] = ArrayNode(values)
            /\ (fieldList = <<"x">> /\ arraySize = 4 /\ seed = 0) =>
                  doc[<<"x">>].value = <<-2, -1, 0, 1>>

C11_Witness ==
    /\ call.fn = "getTopLevelArrayMultiFieldDocumentGenerator"
    /\ call.args = << <<"x", "y">>, 1, 0 >>
    /\ KeysOf(call.result) = {"x", "y"}
    /\ call.result[<<"y">>].value = <<-1>>

\* C12: the document the rotating generator makes for a non-empty field
\* list, an arraySize and a seed s >= 0 has exactly one key,
\* fieldList[s mod fieldCount], holding [0 .. arraySize-1], and no other
\* listed field; field list <<"x", "y">>, arraySize 3, seed 3 gives
\* {y: [0, 1, 2]}. The population variant of part_000 agrees with it: its
\* i-th inserted document (from 0) is the seed-function document for seed i.
C12_RotatingGenerator ==
    /\ call.fn = "getTopLevelArraySingleFieldPerDocumentGenerator" =>
          LET fieldList == call.args[1]
              arraySize == call.args[2]
              seed == call.args[3]
              doc == call.result
              chosen == fieldList[(seed % Len(fieldList)) + 1]
          IN  /\ DOMAIN doc = {<<chosen>>}
              /\ doc[<<chosen>>] = ArrayNode([j \in 1..arraySize |-> j - 1])
              /\ \A k \in 1..Len(fieldList) :
                    fieldList[k] # chosen => fieldList[k] \notin KeysOf(doc)
              /\ (fieldList = <<"x", "y">> /\ arraySize = 3 /\ seed = 3) =>
                    /\ KeysOf(doc) = {"y"}
                    /\ doc[<<"y">>].value = <<0, 1, 2>>
    /\ call.fn = "getTopLevelArraySingleFieldPerDocumentGenerator_part000" =>
          LET fieldList == call.args[1]
              documentCount == call.args[2]
              arraySize == call.args[3]
              inserted == call.result
              seedFunction ==
                  getTopLevelArraySingleFieldPerDocumentGenerator(fieldList, arraySize).value
          IN  /\ Len(inserted) = documentCount
              /\ \A i \in 0..(documentCount - 1) :
                    inserted[i + 1] = CallSeedFunction(seedFunction, i)

C12_Witness ==
    /\ call.fn = "getTopLevelArraySingleFieldPerDocumentGenerator_part000"
    /\ call.args = << <<"x", "y">>, 3, 2 >>
    /\ Len(call.result) = 3
    /\ KeysOf(call.result[2]) = {"y"}
    /\ KeysOf(call.result[3]) = {"x"}

\* The positions of the insert calls of the current setup run.
InsertCalls == {k \in 1..Len(calls) : calls[k].op = "insert"}

\* The document a generator makes as its document number i (from 0): the
\* seed function applied to i, or what the population function inserts in
\* iteration i of its loop.
ExpectedDocument(gen, i) ==
    CASE gen.kind \notin PopulationKinds -> CallSeedFunction(gen, i)
      [] gen.kind = "getDocumentGenerator" ->
            MultiFieldPathToIntegerDocument(gen.fieldList, i)
      [] gen.kind = "getTopLevelArrayDocumentGenerator" ->
            AssignLoop(gen.fieldList, 1,
                       [j \in 1..gen.arraySize |-> i - 5 * gen.arraySize + 10 * (j - 1)],
                       EmptyDoc)
      [] gen.kind = "getTopLevelArraySingleFieldPerDocumentGenerator_part000" ->
            TopLevelArraySingleFieldPerDocument(gen.fieldList, gen.arraySize, i)

\* The calls of the current run are one drop, then `count` inserts carrying
\* the generator's documents 0 .. count-1 in order, then only createIndex.
CallsInOrder(pre, count) ==
    /\ Len(calls) >= 1 + count
    /\ calls[1].op = "drop"
    /\ \A k \in 2..(count + 1) :
          /\ calls[k].op = "insert"
          /\ calls[k].arg = ExpectedDocument(pre.documentGenerator, k - 2)
    /\ \A k \in (count + 2)..Len(calls) : calls[k].op = "createIndex"

\* C13 as stated: every run of a setup function issues exactly one drop,
\* then exactly documentCount inserts (documentCount being the setup
\* function's) carrying the documents for seeds 0 .. documentCount-1 in
\* order, then the createIndex calls.
C13_SetupCallOrder ==
    run.state # "idle" =>
        /\ run.entry.pre.documentCount = Number(Cardinality(InsertCalls))
        /\ CallsInOrder(run.entry.pre, Cardinality(InsertCalls))

\* C13 amended: every run issues exactly one drop, then the inserts, then the
\* createIndex calls. In wildcard_index_query.js there are exactly
\* documentCount inserts, for seeds 0 .. documentCount-1 in order; in
\* part_000 the number of inserts is the documentCount the generator was
\* built with, whatever documentCount the setup function was given (none, in
\* the file's own statements), and they carry the generator's documents
\* 0, 1, .. in order.
C13_SetupCallOrderPerFile ==
    run.state # "idle" =>
        LET pre == run.entry.pre
            count == IF pre.documentGenerator.kind \in PopulationKinds
                     THEN pre.documentGenerator.documentCount
                     ELSE LoopCount(pre.documentCount)
        IN  /\ file = WildcardFile => pre.documentCount = Number(count)
            /\ Cardinality(InsertCalls) = count
            /\ CallsInOrder(pre, count)
            /\ Len(calls) <= 1 + count + Len(IndexCalls(pre))
            /\ run.state = "done" => Len(calls) = 1 + count + Len(IndexCalls(pre))

C13_Witness ==
    /\ file = PartFile
    /\ run.state = "done"
    /\ run.entry.pre.documentCount = Number(1)
    /\ run.entry.pre.documentGenerator.kind = "getDocumentGenerator"
    /\ Len(calls) = 5
    /\ calls[3].op = "insert"
    /\ calls[3].arg # calls[2].arg
    /\ calls[5].op = "createIndex"

\* The createIndex calls of the current setup run, in the order issued.
CreateIndexCalls ==
    LET first == Cardinality({k \in 1..Len(calls) : calls[k].op # "createIndex"}) + 1
    IN  SubSeq(calls, first, Len(calls))

\* C14: the indexes of a successful setup are determined by fieldsToIndex.
\* The wildcard-index setup issues exactly one createIndex, on {"$**": 1},
\* with a wildcardProjection whose keys are exactly the paths of
\* fieldsToIndex, each mapped to 1, when fieldsToIndex is non-empty, and with
\* no options when it is empty. The targeted-index setup issues one
\* createIndex per element of fieldsToIndex, in list order, each on that
\* field ascending with {sparse: true}, and none when fieldsToIndex is empty.
C14_IndexesFollowFieldsToIndex ==
    run.state = "done" =>
        LET pre == run.entry.pre
            fieldsToIndex == pre.fieldsToIndex
            made == CreateIndexCalls
        IN  /\ \A k \in 1..Len(made) : made[k].op = "createIndex" /\ made[k].ok
            /\ coll.indexes = [k \in 1..Len(made) |-> <<made[k].arg, made[k].options>>]
            /\ pre.setup = "WildcardIndex" =>
                  /\ Len(made) = 1
                  /\ made[1].arg = [key |-> "$**", dir |-> 1]
                  /\ fieldsToIndex # <<>> =>
                        /\ made[1].options.defined
                        /\ ~made[1].options.sparse
                        /\ DOMAIN made[1].options.wildcardProjection =
                              {fieldsToIndex[i] : i \in 1..Len(fieldsToIndex)}
                        /\ \A f \in DOMAIN made[1].options.wildcardProjection :
                              made[1].options.wildcardProjection[f] = 1
                  /\ fieldsToIndex = <<>> => ~made[1].options.defined
            /\ pre.setup = "TargetedIndex" =>
                  /\ Len(made) = Len(fieldsToIndex)
                  /\ \A i \in 1..Len(made) :
                        /\ made[i].arg = [key |-> fieldsToIndex[i], dir |-> 1]
                        /\ made[i].options.defined
                        /\ made[i].options.sparse
                        /\ made[i].options.wildcardProjection = <<>>

C14_Witness ==
    /\ run.state = "done"
    /\ run.entry.pre.setup = "WildcardIndex"
    /\ Len(run.entry.pre.fieldsToIndex) = 2
    /\ Len(coll.indexes) = 1
    /\ DOMAIN calls[Len(calls)].options.wildcardProjection = {"field-0", "field-1"}

\* ------------------------------------------------ claims on the scripts
\* How many cases the make calls of a script register.
ScriptCases(script) ==
    Cardinality({k \in 1..Len(script) :
                    script[k].kind = "make" /\ script[k].make = "makeStandaloneReadTest"})
    + 2 * Cardinality({k \in 1..Len(script) :
                    script[k].kind = "make" /\ script[k].make = "makeComparisonReadTest"})

\* C15: loading one scenario file into an absent registry, with no error,
\* leaves one entry per makeStandaloneReadTest call plus two per
\* makeComparisonReadTest call of that file: 45 for part_000, 26 for
\* wildcard_index_query.js; every name starts with "Queries.WildcardIndex."
\* and the names registered by the one file are pairwise distinct.
C15_ScriptRegistersFixedCases ==
    loaded = {file} =>
        /\ pc # "aborted"
        /\ \A i \in 1..Len(tests) :
              /\ Len(tests[i].name) > Len(NamePrefix)
              /\ SubSeq(tests[i].name, 1, Len(NamePrefix)) = NamePrefix
        /\ \A i, j \in 1..Len(tests) : i # j => tests[i].name # tests[j].name
        /\ pc = "done" =>
              /\ Len(tests) = ScriptCases(Script(file))
              /\ Len(tests) = IF file = PartFile THEN 45 ELSE 26

C15_Witness ==
    /\ loaded = {PartFile}
    /\ pc = "done"
    /\ Len(tests) = 45
    /\ tests[45].name = "Queries.WildcardIndex.PointQueryOnSingleNonExistentField.Baseline"

====
